---- MODULE Spec2Model ----
(***************************************************************************)
(* Class loading and method resolution core of the Jacobin JVM.            *)
(*                                                                         *)
(* Four state machines share this module:                                  *)
(*   SpecParse    the class-file parser, parse(rawBytes), one action per   *)
(*                step of javaLangClass.go:145-186;                        *)
(*   Spec         the resolver FetchMethodAndCP of classes.go:204-308, run *)
(*                by concurrent tasks over the shared Method Area and      *)
(*                Method Table;                                            *)
(*   SpecNatives  getPrimitiveClass and simpleClassLoadByName of           *)
(*                javaLangClass.go:50-113, run beside the resolver;        *)
(*   SpecFuncs    the functions that only read their inputs:               *)
(*                getAssertionsEnabledStatus of javaLangClass.go:116-122   *)
(*                and FetchUTF8stringFromCPEntryNumber of                  *)
(*                classes.go:319-334, and                                  *)
(*                util.ParseIncomingParamsFromMethTypeString, which        *)
(*                execUtilities_test.go:14-39 exercises.                   *)
(* Go slices are 0-based: At(s, i) reads element i of a Go slice held as a *)
(* TLA+ sequence.                                                          *)
(***************************************************************************)
EXTENDS Integers, Sequences, FiniteSets, TLC

VARIABLES
    \* ---- parser (javaLangClass.go) ----
    rawBytes,   \* the immutable input buffer of parse
    cpOut,      \* what parseConstantPool yields for this buffer: pos, err, entries
    pClass,     \* the parsedClass being filled in
    ppc,        \* the step parse is about to run, or "returned" / "panic" / "off"
    ppos,       \* parse's local variable pos
    perr,       \* the error parse returned (NoErr: nil)
    psteps,     \* the steps executed so far, in order
    \* ---- resolver (classes.go) ----
    MethArea,   \* class name -> Klass, NoKlass when absent
    MTable,     \* FQ method name -> MTentry, NoEntry when absent
    poisoned,   \* classes whose load failed and whose entry was left in place
    noBytes,    \* classes the byte provider has no (parsable) bytes for
    suppress,   \* TRUE: shutdown.Exit is suppressed (test context)
    halted,     \* "run", "exit" (shutdown.Exit ended the process), "fatal" (runtime throw)
    pc,         \* per task: position inside FetchMethodAndCP
    call,       \* per task: the arguments and locals of its current call
    lstack,     \* per task: the classes its loader invocation is loading (innermost last)
    hist,       \* per task: what the current call has done so far
    returned,   \* every <<FQ key, MTentry>> a call returned with a nil error
    insertedBy, \* FQ keys whose inserting call has returned
    \* ---- read-only functions ----
    Statics,    \* static-variable name -> Static
    fnCall,     \* the call at hand: the function and its arguments
    fnRet       \* what the call returned, NoRet before it has run

pvars == <<rawBytes, cpOut, pClass, ppc, ppos, perr, psteps>>
rvars == <<MethArea, MTable, poisoned, noBytes, suppress, halted, pc, call,
           lstack, hist, returned, insertedBy>>
fvars == <<Statics, fnCall, fnRet>>
vars == <<pvars, rvars, fvars>>

At(s, i) == s[i + 1]

-----------------------------------------------------------------------------
(* Constant-pool tags, classes.go:174-193.                                  *)
Dummy == 0
UTF8 == 1
IntConst == 3
ClassRef == 7

(* globals.GetInstance().MaxJavaVersionRaw: class-file major version of the *)
(* newest supported Java release (Java 11).                                 *)
MaxJavaVersionRaw == 55

(* Largest constant-pool count a generated class file declares.             *)
MaxCpCount == 3

-----------------------------------------------------------------------------
(* Errors: nil, or a kind with its message.                                 *)
NoErr == [kind |-> "nil", msg |-> ""]
cfe(msg) == [kind |-> "ClassFormatError", msg |-> msg]

(* intFrom2Bytes(bytes, pos): big-endian 16-bit read at Go offset pos, an   *)
(* error when the two bytes are not inside the buffer.                      *)
intFrom2BytesFails(bytes, pos) == Len(bytes) < pos + 2
intFrom2Bytes(bytes, pos) ==
    IF intFrom2BytesFails(bytes, pos) THEN 0
    ELSE (At(bytes, pos) * 256 + At(bytes, pos + 1)) % 65536

(* value & mask > 0 for a single-bit mask.                                  *)
BitSet(value, mask) == (value \div mask) % 2 = 1

-----------------------------------------------------------------------------
(*                              THE PARSER                                  *)

(* A decoded constant-pool entry: its tag and payload.                      *)
Utf8Entry(s) == [tag |-> UTF8, index |-> 0, content |-> s]
ClassRefEntry(i) == [tag |-> ClassRef, index |-> i, content |-> ""]
IntEntry == [tag |-> IntConst, index |-> 0, content |-> ""]

SlotOf(entries, k) ==
    Cardinality({j \in 1..(k - 1) : entries[j].tag = entries[k].tag})

IsClassRef(e) == e.tag = ClassRef
IsUtf8(e) == e.tag = UTF8

(* The tables parseConstantPool leaves in the parsed class: the primary     *)
(* index (slot 0 reserved) and one backing sequence per tag.  Indices held  *)
(* in entries are stored as read, unvalidated.                              *)
BuildCP(entries) ==
    [cpIndex |-> <<[entryType |-> Dummy, slot |-> 0]>> \o
                 [k \in 1..Len(entries) |->
                     [entryType |-> entries[k].tag, slot |-> SlotOf(entries, k)]],
     classRefs |-> LET refs == SelectSeq(entries, IsClassRef)
                   IN [k \in 1..Len(refs) |-> [index |-> refs[k].index]],
     utf8Refs |-> LET us == SelectSeq(entries, IsUtf8)
                  IN [k \in 1..Len(us) |-> [content |-> us[k].content]]]

(* var pClass = parsedClass{}                                               *)
EmptyParsedClass ==
    [javaVersion |-> 0, cpCount |-> 0,
     cpIndex |-> <<>>, classRefs |-> <<>>, utf8Refs |-> <<>>,
     accessFlags |-> 0,
     classIsPublic |-> FALSE, classIsFinal |-> FALSE, classIsSuper |-> FALSE,
     classIsInterface |-> FALSE, classIsAbstract |-> FALSE,
     classIsSynthetic |-> FALSE, classIsAnnotation |-> FALSE,
     classIsEnum |-> FALSE, classIsModule |-> FALSE,
     className |-> "", superClass |-> ""]

(* Variant of parseMagicNumber that compares the first three bytes only.    *)
parseMagicNumberThreeBytes(bytes) ==
    IF Len(bytes) < 4 THEN cfe("invalid magic number")
    ELSE IF At(bytes, 0) # 202 \/ At(bytes, 1) # 254 \/ At(bytes, 2) # 186
         THEN cfe("invalid magic number")
         ELSE NoErr

parseMagicNumber(bytes) ==
    IF Len(bytes) < 4 THEN cfe("invalid magic number")
    ELSE IF At(bytes, 0) # 202 \/ At(bytes, 1) # 254
            \/ At(bytes, 2) # 186 \/ At(bytes, 3) # 190
         THEN cfe("invalid magic number")
         ELSE NoErr

parseJavaVersionNumber(bytes, klass) ==
    LET version == intFrom2Bytes(bytes, 6) IN
    IF intFrom2BytesFails(bytes, 6)
    THEN [err |-> cfe("invalid offset into file"), klass |-> klass]
    ELSE IF version > MaxJavaVersionRaw
         THEN [err |-> cfe("Jacobin supports only Java versions through Java 11"),
               klass |-> klass]
         ELSE [err |-> NoErr, klass |-> [klass EXCEPT !.javaVersion = version]]

(* cfe("Invalid number of entries in constant pool: " +                    *)
(*     strconv.Itoa(cpEntryCount))                                          *)
CpSizeError(cpEntryCount) ==
    cfe("Invalid number of entries in constant pool: " \o ToString(cpEntryCount))

(* Variant of getConstantPoolCount that lets a count of 2 through.         *)
getConstantPoolCountBelowTwo(bytes, klass) ==
    LET cpEntryCount == intFrom2Bytes(bytes, 8) IN
    IF intFrom2BytesFails(bytes, 8) \/ cpEntryCount < 2
    THEN [err |-> CpSizeError(cpEntryCount), klass |-> klass]
    ELSE [err |-> NoErr, klass |-> [klass EXCEPT !.cpCount = cpEntryCount]]

getConstantPoolCount(bytes, klass) ==
    LET cpEntryCount == intFrom2Bytes(bytes, 8) IN
    IF intFrom2BytesFails(bytes, 8) \/ cpEntryCount <= 2
    THEN [err |-> CpSizeError(cpEntryCount), klass |-> klass]
    ELSE [err |-> NoErr, klass |-> [klass EXCEPT !.cpCount = cpEntryCount]]

(* parseConstantPool is supplied by cpOut: the position of the last byte it *)
(* consumed, its error, and the tables it built.                            *)
parseConstantPool(out, klass) ==
    LET cp == BuildCP(out.entries) IN
    [pos |-> out.pos,
     err |-> IF out.err THEN cfe("invalid constant pool entry") ELSE NoErr,
     klass |-> [klass EXCEPT !.cpIndex = cp.cpIndex,
                             !.classRefs = cp.classRefs,
                             !.utf8Refs = cp.utf8Refs]]

(* if err != nil || pos < 10 { return pClass, err }                         *)
ReturnsAfterConstantPool(pos, err) == err # NoErr \/ pos < 10

parseAccessFlags(bytes, loc, klass) ==
    LET accessFlags == intFrom2Bytes(bytes, loc + 1)
        pos == loc + 2
    IN IF intFrom2BytesFails(bytes, loc + 1)
       THEN [pos |-> pos, err |-> cfe("Invalid get of class access flags"),
             klass |-> klass]
       ELSE [pos |-> pos, err |-> NoErr,
             klass |-> [klass EXCEPT
                 !.accessFlags = accessFlags,
                 !.classIsPublic = BitSet(accessFlags, 1),
                 !.classIsFinal = BitSet(accessFlags, 16),
                 !.classIsSuper = BitSet(accessFlags, 32),
                 !.classIsInterface = BitSet(accessFlags, 512),
                 !.classIsAbstract = BitSet(accessFlags, 1024),
                 !.classIsSynthetic = BitSet(accessFlags, 4096),
                 !.classIsAnnotation = BitSet(accessFlags, 8192),
                 !.classIsEnum = BitSet(accessFlags, 16384),
                 !.classIsModule = BitSet(accessFlags, 32768)]]

(* The outcome of a name step: the new pos, the error, the class, and       *)
(* whether a slice index ran out of range (a Go runtime panic).             *)
NameOutcome(pos, err, klass, panic) ==
    [pos |-> pos, err |-> err, klass |-> klass, panic |-> panic]

(* Variant of ClassRefSlot that always follows the first ClassRef.          *)
ClassRefSlotFirst(pointedToClassRef) == 0

(* klass.classRefs[pointedToClassRef.slot]: the ClassRef the index targets. *)
ClassRefSlot(pointedToClassRef) == pointedToClassRef.slot

parseClassName(bytes, loc, klass) ==
    LET index == intFrom2Bytes(bytes, loc + 1)
        pos == loc + 2
    IN
    IF intFrom2BytesFails(bytes, loc + 1)
    THEN NameOutcome(pos, cfe("error obtaining index for class name"), klass, FALSE)
    ELSE IF index < 1 \/ index > Len(klass.cpIndex) - 1
    THEN NameOutcome(pos, cfe("invalid index into CP for class name"), klass, FALSE)
    ELSE LET pointedToClassRef == At(klass.cpIndex, index) IN
    IF pointedToClassRef.entryType # ClassRef
    THEN NameOutcome(pos, cfe("invalid entry for class name"), klass, FALSE)
    ELSE IF pointedToClassRef.slot >= Len(klass.classRefs)
    THEN NameOutcome(pos, NoErr, klass, TRUE)
    ELSE LET classNameIndex ==
                 At(klass.classRefs, ClassRefSlot(pointedToClassRef)).index IN
    IF classNameIndex >= Len(klass.cpIndex)
    THEN NameOutcome(pos, NoErr, klass, TRUE)
    ELSE IF At(klass.cpIndex, classNameIndex).entryType # UTF8
    THEN NameOutcome(pos,
             cfe("error classRef in CP does not point to a UTF-8 string"),
             klass, FALSE)
    ELSE LET utf8Index == At(klass.cpIndex, classNameIndex).slot IN
    IF utf8Index >= Len(klass.utf8Refs)
    THEN NameOutcome(pos, NoErr, klass, TRUE)
    ELSE NameOutcome(pos, NoErr,
             [klass EXCEPT !.className = At(klass.utf8Refs, utf8Index).content],
             FALSE)

parseSuperClassName(bytes, loc, klass) ==
    LET index == intFrom2Bytes(bytes, loc + 1)
        pos == loc + 2
    IN
    IF intFrom2BytesFails(bytes, loc + 1)
    THEN NameOutcome(pos, cfe("error obtaining index for superclass name"), klass, FALSE)
    ELSE IF index < 1 \/ index > Len(klass.cpIndex) - 1
    THEN NameOutcome(pos, cfe("invalid index into CP for superclass name"), klass, FALSE)
    ELSE LET pointedToClassRef == At(klass.cpIndex, index) IN
    IF pointedToClassRef.entryType # ClassRef
    THEN NameOutcome(pos, cfe("invalid entry for superclass name"), klass, FALSE)
    ELSE IF pointedToClassRef.slot >= Len(klass.classRefs)
    THEN NameOutcome(pos, NoErr, klass, TRUE)
    ELSE LET classNameIndex == At(klass.classRefs, pointedToClassRef.slot).index IN
    IF classNameIndex >= Len(klass.cpIndex)
    THEN NameOutcome(pos, NoErr, klass, TRUE)
    ELSE IF At(klass.cpIndex, classNameIndex).entryType # UTF8
    THEN NameOutcome(pos,
             cfe("error classRef in CP does not point to a UTF-8 string"),
             klass, FALSE)
    ELSE LET utf8Index == At(klass.cpIndex, classNameIndex).slot IN
    IF utf8Index >= Len(klass.utf8Refs)
    THEN NameOutcome(pos, NoErr, klass, TRUE)
    ELSE LET superClassName == At(klass.utf8Refs, utf8Index).content IN
    IF superClassName = "" /\ klass.className # "java/lang/Object"
    THEN NameOutcome(pos, cfe("Invaild empty string for superclass name"), klass, FALSE)
    ELSE NameOutcome(pos, NoErr, [klass EXCEPT !.superClass = superClassName], FALSE)

-----------------------------------------------------------------------------
(* Class files given to parse.  A file is the 10-byte header, the constant  *)
(* pool region (opaque here: three bytes for each entry), then access       *)
(* flags, this-class index and super-class index, two bytes each.           *)
Word(n) == <<n \div 256, n % 256>>

Magics == {<<202, 254, 186, 190>>, <<0, 0, 0, 0>>, <<202, 254, 186, 191>>}
Majors == {MaxJavaVersionRaw - 1, MaxJavaVersionRaw, MaxJavaVersionRaw + 1, 256}
AccessFlagWords == {33, 1040}
ClassNames == {"", "Foo", "java/lang/Object"}

CpRegion(n) == [k \in 1..(3 * n) |-> 0]

ClassFile(magic, major, cpCount, flags, this, super) ==
    magic \o Word(0) \o Word(major) \o Word(cpCount)
          \o CpRegion(IF cpCount > 0 THEN cpCount - 1 ELSE 0)
          \o Word(flags) \o Word(this) \o Word(super)

(* Go offset of the last byte of the constant pool region.                  *)
LastCpByte(cpCount) == 9 + 3 * (IF cpCount > 0 THEN cpCount - 1 ELSE 0)

EntryChoices(n) ==
    {Utf8Entry(s) : s \in ClassNames} \cup {ClassRefEntry(i) : i \in 0..n}
        \cup {IntEntry}

(* Every constant pool of n - 1 entries.                                    *)
Pools(n) == [1..(n - 1) -> EntryChoices(n)]

(* A well-formed pool: entry 1 a ClassRef to entry 2, the name Foo.         *)
PlainPool(n) ==
    [k \in 1..(IF n > 0 THEN n - 1 ELSE 0) |->
        IF k = 1 THEN ClassRefEntry(2)
        ELSE IF k = 2 THEN Utf8Entry("Foo") ELSE IntEntry]

ParseStart(bytes, out) ==
    /\ rawBytes = bytes
    /\ cpOut = out
    /\ pClass = EmptyParsedClass
    /\ ppc = "magic"
    /\ ppos = 0
    /\ perr = NoErr
    /\ psteps = <<>>

(* Files whose header varies, cut at every length, with every result of the *)
(* constant-pool step.                                                      *)
InitHeaders ==
    \E magic \in Magics, major \in Majors, n \in 0..MaxCpCount :
    \E pos \in {9, LastCpByte(n)}, err \in BOOLEAN :
        LET file == ClassFile(magic, major, n, 33, 1, 1) IN
        \E len \in 0..Len(file) :
            ParseStart(SubSeq(file, 1, len),
                       [pos |-> pos, err |-> err, entries |-> PlainPool(n)])

(* Files with a sound header whose constant pool, access flags and name     *)
(* indices vary.                                                            *)
InitPools ==
    \E n \in 3..MaxCpCount, flags \in AccessFlagWords :
    \E this \in 0..(n + 1), super \in 0..(n + 1), pool \in Pools(n) :
        ParseStart(ClassFile(<<202, 254, 186, 190>>, MaxJavaVersionRaw, n,
                             flags, this, super),
                   [pos |-> LastCpByte(n), err |-> FALSE, entries |-> pool])

(* A pool that names two classes: entries 1 and 2 are ClassRefs to the UTF8  *)
(* entries 3 and 4.                                                         *)
TwoNamePool(a, b) ==
    <<ClassRefEntry(3), ClassRefEntry(4), Utf8Entry(a), Utf8Entry(b)>>

(* Files with a sound header and a two-name pool: every pair of names, and  *)
(* every this-class and super-class index from 0 to 2.                      *)
InitTwoNames ==
    \E a \in ClassNames, b \in ClassNames, flags \in AccessFlagWords :
    \E this \in 0..2, super \in 0..2 :
        LET pool == TwoNamePool(a, b)
            n == Len(pool) + 1
        IN ParseStart(ClassFile(<<202, 254, 186, 190>>, MaxJavaVersionRaw, n,
                                flags, this, super),
                      [pos |-> LastCpByte(n), err |-> FALSE, entries |-> pool])

ParserOff ==
    /\ rawBytes = <<>>
    /\ cpOut = [pos |-> 0, err |-> FALSE, entries |-> <<>>]
    /\ pClass = EmptyParsedClass
    /\ ppc = "off"
    /\ ppos = 0
    /\ perr = NoErr
    /\ psteps = <<>>

(* parse returns (pClass, err).                                             *)
ParseReturn(err) ==
    /\ ppc' = "returned"
    /\ perr' = err

(* One step of parse ran: it is recorded, and parse returns its error or    *)
(* goes on to the next step.                                                *)
ParseAdvance(step, err, next) ==
    /\ psteps' = Append(psteps, step)
    /\ IF err # NoErr THEN ParseReturn(err)
       ELSE ppc' = next /\ perr' = perr

StepMagic ==
    /\ ppc = "magic"
    /\ ParseAdvance("magic", parseMagicNumber(rawBytes), "version")
    /\ UNCHANGED <<rawBytes, cpOut, pClass, ppos, rvars, fvars>>

StepVersion ==
    /\ ppc = "version"
    /\ LET r == parseJavaVersionNumber(rawBytes, pClass) IN
        /\ pClass' = r.klass
        /\ ParseAdvance("version", r.err, "cpcount")
    /\ UNCHANGED <<rawBytes, cpOut, ppos, rvars, fvars>>

StepCpCount ==
    /\ ppc = "cpcount"
    /\ LET r == getConstantPoolCount(rawBytes, pClass) IN
        /\ pClass' = r.klass
        /\ ParseAdvance("cpcount", r.err, "cp")
    /\ UNCHANGED <<rawBytes, cpOut, ppos, rvars, fvars>>

StepConstantPool ==
    /\ ppc = "cp"
    /\ LET r == parseConstantPool(cpOut, pClass) IN
        /\ pClass' = r.klass
        /\ ppos' = r.pos
        /\ psteps' = Append(psteps, "cp")
        /\ IF ReturnsAfterConstantPool(r.pos, r.err)
           THEN ParseReturn(r.err)
           ELSE ppc' = "flags" /\ perr' = perr
    /\ UNCHANGED <<rawBytes, cpOut, rvars, fvars>>

StepAccessFlags ==
    /\ ppc = "flags"
    /\ LET r == parseAccessFlags(rawBytes, ppos, pClass) IN
        /\ pClass' = r.klass
        /\ ppos' = r.pos
        /\ ParseAdvance("flags", r.err, "this")
    /\ UNCHANGED <<rawBytes, cpOut, rvars, fvars>>

StepClassName ==
    /\ ppc = "this"
    /\ LET r == parseClassName(rawBytes, ppos, pClass) IN
        /\ pClass' = r.klass
        /\ ppos' = r.pos
        /\ IF r.panic
           THEN ppc' = "panic" /\ perr' = perr /\ psteps' = Append(psteps, "this")
           ELSE ParseAdvance("this", r.err, "super")
    /\ UNCHANGED <<rawBytes, cpOut, rvars, fvars>>

StepSuperClassName ==
    /\ ppc = "super"
    /\ LET r == parseSuperClassName(rawBytes, ppos, pClass) IN
        /\ pClass' = r.klass
        /\ ppos' = r.pos
        /\ IF r.panic
           THEN ppc' = "panic" /\ perr' = perr /\ psteps' = Append(psteps, "super")
           ELSE ParseAdvance("super", r.err, "returned")
    /\ UNCHANGED <<rawBytes, cpOut, rvars, fvars>>

-----------------------------------------------------------------------------
(*                         READ-ONLY FUNCTIONS                              *)

(* A Static, statics.go:16-38, as getAssertionsEnabledStatus reads it: the  *)
(* kind tag and the typed value.  The value of an interface{} is nil or a   *)
(* value of a dynamic type.                                                 *)
Static(type, value) == [Type |-> type, Value |-> value]
Int64Value(n) == [kind |-> "int64", v |-> n]
StringValue(str) == [kind |-> "string", v |-> str]
NilValue == [kind |-> "nil", v |-> 0]

(* Reading a Go map: the zero Static when the key is absent; the map is     *)
(* left as it was.                                                          *)
StaticsFetch(statics, name) ==
    IF name \in DOMAIN statics THEN statics[name] ELSE Static("", NilValue)

(* An empty Statics store.                                                  *)
NoStatics == [name \in {} |-> Static("", NilValue)]

NoRet == [fn |-> "", value |-> "", panic |-> FALSE]
Returns(fn, value) == [fn |-> fn, value |-> value, panic |-> FALSE]
Panics(fn) == [fn |-> fn, value |-> "", panic |-> TRUE]

(* Variant of getAssertionsEnabledStatus that returns the flag itself.      *)
getAssertionsDisabledStatus(statics) ==
    LET x == StaticsFetch(statics, "main.$assertionsDisabled").Value
    IN IF x.kind # "int64"
       THEN [ret |-> Panics("getAssertionsEnabledStatus"), statics |-> statics]
       ELSE [ret |-> Returns("getAssertionsEnabledStatus", x.v),
             statics |-> statics]

(* x := Statics["main.$assertionsDisabled"].Value.(int64); return 1 - x     *)
(* The type assertion panics on a value that is not an int64.  Yields the   *)
(* return value and the Statics store after the call.                       *)
getAssertionsEnabledStatus(statics) ==
    LET x == StaticsFetch(statics, "main.$assertionsDisabled").Value
    IN IF x.kind # "int64"
       THEN [ret |-> Panics("getAssertionsEnabledStatus"), statics |-> statics]
       ELSE [ret |-> Returns("getAssertionsEnabledStatus", 1 - x.v),
             statics |-> statics]

(* The CPool of a loaded class, classes.go:40-57, built from decoded        *)
(* entries: CpIndex (entry 0 is the dummy entry) and the UTF8 strings.      *)
CPool(entries) ==
    [CpIndex |-> <<[Type |-> Dummy, Slot |-> 0]>> \o
                 [k \in 1..Len(entries) |->
                     [Type |-> entries[k].tag, Slot |-> SlotOf(entries, k)]],
     Utf8Refs |-> LET us == SelectSeq(entries, IsUtf8)
                  IN [k \in 1..Len(us) |-> us[k].content]]

(* uint16(n)                                                                *)
Uint16(n) == n % 65536

(* Variant of FetchUTF8stringFromCPEntryNumber without the test of the      *)
(* entry's tag.                                                             *)
FetchUTF8stringAnyTag(cp, entry) ==
    IF entry < 1 \/ entry >= Uint16(Len(cp.CpIndex))
    THEN [ret |-> Returns("FetchUTF8stringFromCPEntryNumber", ""), cp |-> cp]
    ELSE LET u == At(cp.CpIndex, entry) IN
         IF u.Slot >= Len(cp.Utf8Refs)
         THEN [ret |-> Panics("FetchUTF8stringFromCPEntryNumber"), cp |-> cp]
         ELSE [ret |-> Returns("FetchUTF8stringFromCPEntryNumber",
                               At(cp.Utf8Refs, u.Slot)),
               cp |-> cp]

(* classes.go:319-334.  Indexing Utf8Refs beyond its length is a runtime    *)
(* panic.  Yields the return value and the pool after the call.             *)
FetchUTF8stringFromCPEntryNumber(cp, entry) ==
    IF entry < 1 \/ entry >= Uint16(Len(cp.CpIndex))
    THEN [ret |-> Returns("FetchUTF8stringFromCPEntryNumber", ""), cp |-> cp]
    ELSE LET u == At(cp.CpIndex, entry) IN
         IF u.Type # UTF8
         THEN [ret |-> Returns("FetchUTF8stringFromCPEntryNumber", ""),
               cp |-> cp]
         ELSE IF u.Slot >= Len(cp.Utf8Refs)
         THEN [ret |-> Panics("FetchUTF8stringFromCPEntryNumber"), cp |-> cp]
         ELSE [ret |-> Returns("FetchUTF8stringFromCPEntryNumber",
                               At(cp.Utf8Refs, u.Slot)),
               cp |-> cp]

(* The call at hand: the function, the pool and entry number it is given    *)
(* (FetchUTF8stringFromCPEntryNumber only), the Statics store and pool as   *)
(* they were when it was made, and for                                      *)
(* ParseIncomingParamsFromMethTypeString the string s it is given, one      *)
(* character per element, with the parameters s was written from.           *)
FnCall(fn, cp, entry, statics) ==
    [fn |-> fn, cp |-> cp, cp0 |-> cp, entry |-> entry, statics0 |-> statics,
     s |-> <<>>, params |-> <<>>]

NoPool == CPool(<<>>)

(* Values the assertion flag and a second static hold.                      *)
FlagValues ==
    {Int64Value(n) : n \in {-1, 0, 1, 2}} \cup {StringValue("0"), NilValue}
OtherStatics ==
    {NoStatics} \cup
    {("main.count" :> Static("I", v)) : v \in {Int64Value(0), Int64Value(7)}}

(* Statics stores with and without the assertion flag.                      *)
StaticsStores ==
    OtherStatics \cup
    {("main.$assertionsDisabled" :> Static("Z", v)) @@ other :
        v \in FlagValues, other \in OtherStatics}

InitAssertions ==
    /\ Statics \in StaticsStores
    /\ fnCall = FnCall("getAssertionsEnabledStatus", NoPool, 0, Statics)
    /\ fnRet = NoRet

(* Entry numbers given to FetchUTF8stringFromCPEntryNumber for a pool whose *)
(* CpIndex has n elements: every entry of the pool, the numbers around its  *)
(* end, and the largest uint16.                                             *)
EntryNumbers(n) == 0..(n + 1) \cup {65535}

InitFetchUTF8 ==
    /\ Statics = NoStatics
    /\ \E n \in 1..MaxCpCount :
       \E pool \in Pools(n) :
       \E entry \in EntryNumbers(n) :
           fnCall = FnCall("FetchUTF8stringFromCPEntryNumber", CPool(pool),
                           entry, Statics)
    /\ fnRet = NoRet

(* Largest number of parameters in a generated method descriptor.           *)
MaxParams == 3

(* Parameter types as they stand in a descriptor: byte, short, int, and     *)
(* arrays of them.                                                          *)
ParamTypes ==
    {<<"B">>, <<"S">>, <<"I">>, <<"[", "B">>, <<"[", "S">>, <<"[", "I">>,
     <<"[", "[", "B">>}

(* What follows ")": nothing, as in "(SBI)", or a return type.              *)
ReturnTypes == {<<>>, <<"I">>, <<"V">>, <<"[", "B">>}

RECURSIVE Flatten(_)
Flatten(seqs) ==
    IF seqs = <<>> THEN <<>> ELSE Head(seqs) \o Flatten(Tail(seqs))

(* "(" parameters ")" return-type                                           *)
MethTypeString(params, ret) == <<"(">> \o Flatten(params) \o <<")">> \o ret

(* The Go offset of the element letter of the array type that starts at i.  *)
RECURSIVE ArrayElement(_, _)
ArrayElement(chars, i) ==
    IF i < Len(chars) /\ At(chars, i) = "["
    THEN ArrayElement(chars, i + 1)
    ELSE i

(* The characters of chars from offset i to offset j as one string.         *)
RECURSIVE Substring(_, _, _)
Substring(chars, i, j) ==
    IF i > j \/ i >= Len(chars) THEN ""
    ELSE At(chars, i) \o Substring(chars, i + 1, j)

(* Variant of ParamsFrom that keeps the letter of a byte or short.          *)
RECURSIVE ParamsFromKeepingLetters(_, _)
ParamsFromKeepingLetters(chars, i) ==
    IF i >= Len(chars) \/ At(chars, i) = ")" THEN <<>>
    ELSE IF At(chars, i) = "["
    THEN LET j == ArrayElement(chars, i) IN
         <<Substring(chars, i, j)>> \o ParamsFromKeepingLetters(chars, j + 1)
    ELSE <<At(chars, i)>> \o ParamsFromKeepingLetters(chars, i + 1)

(* The parameters read from offset i on, up to ")": an array type is kept   *)
(* with its "[" prefix and element letter; byte, short and int give "I".    *)
RECURSIVE ParamsFrom(_, _)
ParamsFrom(chars, i) ==
    IF i >= Len(chars) \/ At(chars, i) = ")" THEN <<>>
    ELSE IF At(chars, i) = "["
    THEN LET j == ArrayElement(chars, i) IN
         <<Substring(chars, i, j)>> \o ParamsFrom(chars, j + 1)
    ELSE <<"I">> \o ParamsFrom(chars, i + 1)

(* util.ParseIncomingParamsFromMethTypeString(s): the list of parameter     *)
(* types between "(" and ")"; empty for a string that does not open with    *)
(* "(".                                                                     *)
ParseIncomingParamsFromMethTypeString(chars) ==
    IF chars = <<>> \/ At(chars, 0) # "(" THEN <<>> ELSE ParamsFrom(chars, 1)

(* Every descriptor of up to MaxParams parameters, and the empty string.    *)
InitMethType ==
    /\ Statics = NoStatics
    /\ \/ \E n \in 0..MaxParams :
          \E params \in [1..n -> ParamTypes], ret \in ReturnTypes :
              fnCall = [FnCall("ParseIncomingParamsFromMethTypeString",
                               NoPool, 0, Statics)
                           EXCEPT !.s = MethTypeString(params, ret),
                                  !.params = params]
       \/ fnCall = FnCall("ParseIncomingParamsFromMethTypeString",
                          NoPool, 0, Statics)
    /\ fnRet = NoRet

FuncsOff ==
    /\ Statics = NoStatics
    /\ fnCall = FnCall("", NoPool, 0, NoStatics)
    /\ fnRet = NoRet

-----------------------------------------------------------------------------
(*                              THE RESOLVER                                *)

Tasks == {"t1", "t2"}

(* The class files the byte provider knows: each class's superclass and the *)
(* signatures (name + descriptor) its own method table declares.            *)
Classes == {"Child", "java/lang/Object", "java/lang/Class"}

(* The classes getPrimitiveClass loads, javaLangClass.go:57-74.             *)
Wrappers ==
    {"java/lang/Boolean", "java/lang/Byte", "java/lang/Character",
     "java/lang/Double", "java/lang/Float", "java/lang/Integer",
     "java/lang/Long", "java/lang/Short", "java/lang/Void"}

Superclass(c) ==
    CASE c = "Child" -> "java/lang/Object"
      [] c = "java/lang/Class" -> "java/lang/Object"
      [] c \in Wrappers -> "java/lang/Object"
      [] OTHER -> ""

MethNames == {"main", "toString", "registerNatives"}

MethTypeOf(m) ==
    CASE m = "main" -> "([Ljava/lang/String;)V"
      [] m = "toString" -> "()Ljava/lang/String;"
      [] OTHER -> "()V"

(* k.Data.MethodTable: the class's methods by name + descriptor.            *)
ClassFileMethods(c) ==
    CASE c = "Child" -> {"main([Ljava/lang/String;)V"}
      [] c = "java/lang/Object" -> {"toString()Ljava/lang/String;"}
      [] c = "java/lang/Class" -> {"registerNatives()V"}
      [] OTHER -> {}

(* Klass.Status, in lifecycle order.                                        *)
StatusRank(s) ==
    CASE s = "I" -> 0 [] s = "F" -> 1 [] s = "V" -> 2 [] s = "L" -> 3
      [] s = "N" -> 4 [] OTHER -> -1

Klass(status, loader, name) == [Status |-> status, Loader |-> loader, Name |-> name]

(* MethAreaFetch(name): the entry, or nil.                                  *)
NoKlass == Klass("", "", "")
MethAreaFetch(name) == IF name \in DOMAIN MethArea THEN MethArea[name] ELSE NoKlass

AtLeastLinked(name) ==
    MethAreaFetch(name) # NoKlass /\ StatusRank(MethAreaFetch(name).Status) >= 3

(* MTentry: Meth is nil, a JmEntry (with the constant pool of its owning     *)
(* class) or a GMeth; MType is its one-character tag.                       *)
NilMeth == [impl |-> "nil", cp |-> "", code |-> "", slots |-> 0]
JmEntry(owner, sig) == [impl |-> "java", cp |-> owner, code |-> sig, slots |-> 0]
GMeth(slots, fn) == [impl |-> "go", cp |-> "", code |-> fn, slots |-> slots]
MTentry(meth, mtype) == [Meth |-> meth, MType |-> mtype]
NoEntry == MTentry(NilMeth, "")

(* MethodSignatures after Load_Lang_Class().                                *)
Load_Lang_Class ==
    [k \in {"java/lang/Class.getPrimitiveClass(Ljava/lang/String;)Ljava/lang/Class;",
            "java/lang/Class.desiredAssertionStatus()Z",
            "java/lang/Class.desiredAssertionStatus0()Z",
            "java/lang/Class.registerNatives()V"} |->
        CASE k = "java/lang/Class.getPrimitiveClass(Ljava/lang/String;)Ljava/lang/Class;"
                 -> GMeth(1, "getPrimitiveClass")
          [] k = "java/lang/Class.desiredAssertionStatus()Z"
                 -> GMeth(0, "getAssertionsEnabledStatus")
          [] k = "java/lang/Class.desiredAssertionStatus0()Z"
                 -> GMeth(1, "getAssertionsEnabledStatus")
          [] OTHER -> GMeth(0, "justReturn")]

(* The Method Table before user code runs: every registered native method   *)
(* under its FQ signature, tagged 'G'.                                      *)
NativeMTable == [k \in DOMAIN Load_Lang_Class |-> MTentry(Load_Lang_Class[k], "G")]

(* MTable[key]: a Go map read, the zero MTentry on a miss.                  *)
MTableGet(key) == IF key \in DOMAIN MTable THEN MTable[key] ELSE NoEntry

MapPut(map, key, val) ==
    [k \in DOMAIN map \cup {key} |-> IF k = key THEN val ELSE map[k]]

MapRemove(map, key) == [k \in DOMAIN map \ {key} |-> map[k]]

(* methFQN := className + "." + methName + methType                          *)
MethFQN(className, methName, methType) == className \o "." \o methName \o methType

-----------------------------------------------------------------------------
(* The state of a task outside any call, and the record of what a call did. *)
NoCall == [fn |-> "",             \* the function called
           word |-> "",           \* getPrimitiveClass: the descriptor word
           className |-> "", methName |-> "", methType |-> "",
           loadErr |-> FALSE, jme |-> NilMeth]

NoHist == [invokedLoader |-> FALSE,  \* LoadClassFromNameOnly was called
           loads |-> {},             \* the class names it was called with
           fetched |-> {},           \* the class names looked up in the Method Area
           wrote |-> FALSE,          \* the call assigned to MTable
           diag |-> 0,               \* times noMainError was emitted
           hit |-> FALSE,            \* the result came from the MTable lookup
           startLoaded |-> FALSE,    \* the class was loaded when the call began
           afterInsert |-> FALSE,    \* the FQ key was already inserted when it began
           afterFailure |-> FALSE,   \* a load of the class had failed when it began
           startPresent |-> FALSE,   \* simpleClassLoadByName: the class was in the
                                     \* Method Area when it began
           prior |-> {},             \* simpleClassLoadByName: the calls for the same
                                     \* name that had returned when it began
           entry |-> NoEntry,        \* the MTentry returned
           klass |-> NoKlass,        \* the *Klass returned (NoKlass: nil)
           err |-> ""]               \* the error returned ("": nil)

(* The Method Area of a test harness that inserted Child without a loader.  *)
ChildNoLoader == [c \in {"Child"} |-> Klass("L", "", "Child")]
EmptyMap == [c \in {} |-> NoKlass]

ResolverStart(area, missing, sup) ==
    /\ MethArea = area
    /\ MTable = NativeMTable
    /\ poisoned = {}
    /\ noBytes = missing
    /\ suppress = sup
    /\ halted = "run"
    /\ pc = [t \in Tasks |-> "idle"]
    /\ call = [t \in Tasks |-> NoCall]
    /\ lstack = [t \in Tasks |-> <<>>]
    /\ hist = [t \in Tasks |-> NoHist]
    /\ returned = {}
    /\ insertedBy = {}

Init ==
    /\ ParserOff
    /\ FuncsOff
    /\ \/ \E missing \in SUBSET {"java/lang/Object", "java/lang/Class"},
             sup \in BOOLEAN :
              ResolverStart(EmptyMap, missing, sup)
       \/ ResolverStart(ChildNoLoader, {}, TRUE)

(* While the parser runs alone the resolver holds nothing.                  *)
ResolverOff ==
    /\ MethArea = EmptyMap
    /\ MTable = EmptyMap
    /\ poisoned = {}
    /\ noBytes = {}
    /\ suppress = TRUE
    /\ halted = "off"
    /\ pc = <<>>
    /\ call = <<>>
    /\ lstack = <<>>
    /\ hist = <<>>
    /\ returned = {}
    /\ insertedBy = {}

InitParse ==
    /\ InitHeaders \/ InitPools \/ InitTwoNames
    /\ ResolverOff
    /\ FuncsOff

NativeKeys == {k \in DOMAIN MTable : MTable[k].MType = "G"}

(* shutdown.Exit(code): ends the process unless a test suppresses it.       *)
ExitEndsProcess == ~suppress

-----------------------------------------------------------------------------
(* LoadClassFromNameOnly, the class loader: claim the name with a           *)
(* placeholder at status initializing, parse, format-check, load the        *)
(* superclass, verify, link.  One frame of lstack per nested load.          *)
Frame(c, phase) == [cls |-> c, phase |-> phase]
Top(t) == lstack[t][Len(lstack[t])]
SetPhase(t, phase) ==
    [lstack EXCEPT ![t][Len(lstack[t])] = Frame(Top(t).cls, phase)]

(* The innermost load of task t ends; its result goes to the load that      *)
(* asked for it, or to FetchMethodAndCP.                                    *)
PopFrame(t, ok) ==
    IF Len(lstack[t]) = 1
    THEN /\ lstack' = [lstack EXCEPT ![t] = <<>>]
         /\ pc' = [pc EXCEPT ![t] = "loaded"]
         /\ call' = [call EXCEPT ![t].loadErr = ~ok]
    ELSE /\ lstack' = [lstack EXCEPT ![t] =
                LET n == Len(lstack[t]) IN
                [k \in 1..(n - 1) |->
                    IF k = n - 1 /\ ~ok THEN Frame(lstack[t][k].cls, "failed")
                    ELSE lstack[t][k]]]
         /\ UNCHANGED <<pc, call>>

Loading(t) == halted = "run" /\ pc[t] = "load" /\ Len(lstack[t]) > 0

LoadEnter(t) ==
    /\ Loading(t)
    /\ Top(t).phase = "enter"
    /\ LET c == Top(t).cls IN
        IF AtLeastLinked(c)
        THEN PopFrame(t, TRUE) /\ UNCHANGED <<MethArea, poisoned>>
        ELSE IF c \in DOMAIN MethArea
        THEN \* wait-for-status: blocked until linked, an error once poisoned
             /\ c \in poisoned
             /\ PopFrame(t, FALSE)
             /\ UNCHANGED <<MethArea, poisoned>>
        ELSE /\ MethArea' = MapPut(MethArea, c, Klass("I", "bootstrap", c))
             /\ lstack' = SetPhase(t, "parse")
             /\ UNCHANGED <<pc, call, poisoned>>
    /\ UNCHANGED <<pvars, fvars, MTable, noBytes, suppress, halted, hist, returned, insertedBy>>

LoadParse(t) ==
    /\ Loading(t)
    /\ Top(t).phase = "parse"
    /\ LET c == Top(t).cls IN
        IF c \in noBytes
        THEN lstack' = SetPhase(t, "failed") /\ UNCHANGED MethArea
        ELSE /\ MethArea' = MapPut(MethArea, c, Klass("F", "bootstrap", c))
             /\ lstack' = SetPhase(t, "super")
    /\ UNCHANGED <<pvars, fvars, MTable, poisoned, noBytes, suppress, halted, pc, call,
                   hist, returned, insertedBy>>

LoadSuper(t) ==
    /\ Loading(t)
    /\ Top(t).phase = "super"
    /\ LET c == Top(t).cls
           sup == Superclass(c)
       IN IF sup = "" \/ AtLeastLinked(sup)
          THEN /\ MethArea' = MapPut(MethArea, c, Klass("V", "bootstrap", c))
               /\ lstack' = SetPhase(t, "link")
          ELSE /\ lstack' = [lstack EXCEPT ![t] = Append(@, Frame(sup, "enter"))]
               /\ UNCHANGED MethArea
    /\ UNCHANGED <<pvars, fvars, MTable, poisoned, noBytes, suppress, halted, pc, call,
                   hist, returned, insertedBy>>

LoadLink(t) ==
    /\ Loading(t)
    /\ Top(t).phase = "link"
    /\ MethArea' = MapPut(MethArea, Top(t).cls, Klass("L", "bootstrap", Top(t).cls))
    /\ PopFrame(t, TRUE)
    /\ UNCHANGED <<pvars, fvars, MTable, poisoned, noBytes, suppress, halted,
                   hist, returned, insertedBy>>

(* On any failure the entry is marked poisoned, or removed.                 *)
LoadFail(t) ==
    /\ Loading(t)
    /\ Top(t).phase = "failed"
    /\ \/ poisoned' = poisoned \cup {Top(t).cls} /\ UNCHANGED MethArea
       \/ MethArea' = MapRemove(MethArea, Top(t).cls) /\ UNCHANGED poisoned
    /\ PopFrame(t, FALSE)
    /\ UNCHANGED <<pvars, fvars, MTable, noBytes, suppress, halted, hist, returned, insertedBy>>

(* WaitForClassStatus(className): nil once the class is linked, an error    *)
(* when it is absent or poisoned; blocks otherwise.                         *)
WaitReturns(className) ==
    \/ AtLeastLinked(className)
    \/ className \notin DOMAIN MethArea
    \/ className \in poisoned
WaitFails(className) == ~AtLeastLinked(className)

-----------------------------------------------------------------------------
(* FetchMethodAndCP(className, methName, methType), classes.go:204-308.     *)

(* k.Data.MethodTable: filled in from the class file once it is parsed.     *)
MethodTable(k) ==
    IF StatusRank(k.Status) >= 1 THEN ClassFileMethods(k.Name) ELSE {}

(* Variant of NeedsLoad that also loads a class present below linked.       *)
NeedsLoadBelowLinked(className) == ~AtLeastLinked(className)

(* if MethAreaFetch(className) == nil                                       *)
NeedsLoad(className) == MethAreaFetch(className) = NoKlass

(* Variants of MTableHit that recognise one tag only.                       *)
MTableHitNativeOnly(methEntry) ==
    methEntry.Meth # NilMeth /\ methEntry.MType = "G"
MTableHitJavaOnly(methEntry) ==
    methEntry.Meth # NilMeth /\ methEntry.MType = "J"

(* if methEntry.Meth != nil, and MType is 'J' or 'G'                        *)
MTableHit(methEntry) ==
    methEntry.Meth # NilMeth /\ methEntry.MType \in {"J", "G"}

(* Variant of WaitErrorReturns that goes on after a failed wait.            *)
WaitErrorIgnored(failed) == FALSE

(* err := WaitForClassStatus(className); if err != nil { ... return }       *)
WaitErrorReturns(failed) == failed

(* Variant of LocalLookup that finds every method.                          *)
LocalLookupAlwaysOk(k, searchName) == TRUE

(* methRef, ok := k.Data.MethodTable[searchName]                            *)
LocalLookup(k, searchName) == searchName \in MethodTable(k)

(* jme := JmEntry{..., Cp: &k.Data.CP}                                      *)
NewJmEntry(k, searchName) == JmEntry(k.Name, searchName)

(* Variant of MissDiagnostics that never emits the diagnostic.              *)
MissDiagnosticsNone(methName) == 0

(* if methName == "main" { noMainError(origClassName) }: diagnostics emitted *)
(* when the class does not declare the method.                              *)
MissDiagnostics(methName) == IF methName = "main" THEN 1 ELSE 0

(* The classes searched after a local miss: the superclass ascent is        *)
(* commented out, so none.                                                  *)
AscentAfterMiss(k, methName) == {}

CallKey(t) == MethFQN(call[t].className, call[t].methName, call[t].methType)

(* The call of task t returns (entry, err); h is its record so far.         *)
Finish(t, entry, err, h) ==
    /\ pc' = [pc EXCEPT ![t] = "done"]
    /\ hist' = [hist EXCEPT ![t] = [h EXCEPT !.entry = entry, !.err = err]]
    /\ returned' = IF err = "" THEN returned \cup {<<CallKey(t), entry>>} ELSE returned
    /\ insertedBy' = IF h.wrote THEN insertedBy \cup {CallKey(t)} ELSE insertedBy

(* A load of class c is known to have failed: its entry is poisoned, or the *)
(* loader has returned an error for it to a call still in progress.         *)
FailedBefore(c) ==
    \/ c \in poisoned
    \/ \E u \in Tasks : call[u].className = c /\ call[u].loadErr

Call(t, c, m) ==
    /\ halted = "run"
    /\ pc[t] = "idle"
    /\ call' = [call EXCEPT ![t] =
           [NoCall EXCEPT !.fn = "FetchMethodAndCP",
                          !.className = c, !.methName = m, !.methType = MethTypeOf(m)]]
    /\ LET h == [NoHist EXCEPT
                    !.fetched = {c},
                    !.afterFailure = FailedBefore(c),
                    !.startPresent = MethAreaFetch(c) # NoKlass,
                    !.startLoaded = AtLeastLinked(c) /\ MethAreaFetch(c).Loader # "",
                    !.afterInsert = MethFQN(c, m, MethTypeOf(m)) \in insertedBy]
       IN IF NeedsLoad(c)
          THEN /\ pc' = [pc EXCEPT ![t] = "load"]
               /\ lstack' = [lstack EXCEPT ![t] = <<Frame(c, "enter")>>]
               /\ hist' = [hist EXCEPT ![t] =
                      [h EXCEPT !.invokedLoader = TRUE, !.loads = {c}]]
          ELSE /\ pc' = [pc EXCEPT ![t] = "lookup"]
               /\ hist' = [hist EXCEPT ![t] = h]
               /\ UNCHANGED lstack
    /\ UNCHANGED <<pvars, fvars, MethArea, MTable, poisoned, noBytes, suppress, halted,
                   returned, insertedBy>>

(* Lines 212-223: the loader returned.                                      *)
AfterLoad(t) ==
    /\ halted = "run"
    /\ pc[t] = "loaded"
    /\ call[t].fn = "FetchMethodAndCP"
    /\ IF call[t].loadErr
       THEN /\ hist' = [hist EXCEPT ![t].diag = @ + MissDiagnostics(call[t].methName)]
            /\ IF ExitEndsProcess
               THEN halted' = "exit" /\ UNCHANGED pc
               ELSE pc' = [pc EXCEPT ![t] = "lookup"] /\ UNCHANGED halted
       ELSE /\ pc' = [pc EXCEPT ![t] = "lookup"]
            /\ UNCHANGED <<hist, halted>>
    /\ UNCHANGED <<pvars, fvars, MethArea, MTable, poisoned, noBytes, suppress, call,
                   lstack, returned, insertedBy>>

(* Lines 225-234: the MTable lookup.                                        *)
Lookup(t) ==
    /\ halted = "run"
    /\ pc[t] = "lookup"
    /\ LET methEntry == MTableGet(CallKey(t)) IN
        IF MTableHit(methEntry)
        THEN Finish(t, MTentry(methEntry.Meth, methEntry.MType), "",
                    [hist[t] EXCEPT !.hit = TRUE])
        ELSE /\ pc' = [pc EXCEPT ![t] = "wait"]
             /\ UNCHANGED <<hist, returned, insertedBy>>
    /\ UNCHANGED <<pvars, fvars, MethArea, MTable, poisoned, noBytes, suppress, halted,
                   call, lstack>>

(* Lines 237-243.                                                           *)
Wait(t) ==
    /\ halted = "run"
    /\ pc[t] = "wait"
    /\ WaitReturns(call[t].className)
    /\ IF WaitErrorReturns(WaitFails(call[t].className))
       THEN IF ExitEndsProcess
            THEN halted' = "exit" /\ UNCHANGED <<pc, hist, returned, insertedBy>>
            ELSE Finish(t, NoEntry, "WaitForClassStatus", hist[t]) /\ UNCHANGED halted
       ELSE /\ pc' = [pc EXCEPT ![t] = "resolve"]
            /\ UNCHANGED <<hist, returned, insertedBy, halted>>
    /\ UNCHANGED <<pvars, fvars, MethArea, MTable, poisoned, noBytes, suppress, call, lstack>>

(* Lines 245-282 and 290-307: fetch the class, look the method up in it.    *)
Resolve(t) ==
    /\ halted = "run"
    /\ pc[t] = "resolve"
    /\ LET k == MethAreaFetch(call[t].className)
           searchName == call[t].methName \o call[t].methType
       IN
       IF k = NoKlass
       THEN IF ExitEndsProcess
            THEN halted' = "exit" /\ UNCHANGED <<pc, hist, returned, insertedBy, call>>
            ELSE /\ Finish(t, NoEntry, "MethAreaFetch could not find class", hist[t])
                 /\ UNCHANGED <<halted, call>>
       ELSE IF k.Loader = ""
       THEN /\ Finish(t, NoEntry, "Null Loader in className", hist[t])
            /\ UNCHANGED <<halted, call>>
       ELSE IF LocalLookup(k, searchName)
       THEN /\ call' = [call EXCEPT ![t].jme = NewJmEntry(k, searchName)]
            /\ pc' = [pc EXCEPT ![t] = "writing"]
            /\ UNCHANGED <<hist, returned, insertedBy, halted>>
       ELSE /\ Finish(t, NoEntry, "did not contain method",
                   [hist[t] EXCEPT
                       !.diag = @ + MissDiagnostics(call[t].methName),
                       !.fetched = @ \cup AscentAfterMiss(k, call[t].methName)])
            /\ UNCHANGED <<halted, call>>
    /\ UNCHANGED <<pvars, fvars, MethArea, MTable, poisoned, noBytes, suppress, lstack>>

(* Lines 283-287: MTable[methFQN] = MTentry{jme, 'J'}; return it.           *)
Write(t) ==
    /\ halted = "run"
    /\ pc[t] = "writing"
    /\ MTable' = MapPut(MTable, CallKey(t), MTentry(call[t].jme, "J"))
    /\ Finish(t, MTentry(call[t].jme, "J"), "", [hist[t] EXCEPT !.wrote = TRUE])
    /\ UNCHANGED <<pvars, fvars, MethArea, poisoned, noBytes, suppress, halted, call, lstack>>

(* MTable is a plain Go map with no lock around it: an access made while    *)
(* another task is inside the assignment of line 283 is a data race, which  *)
(* the Go runtime may answer with a fatal throw.                            *)
RaceThrow(t) ==
    /\ halted = "run"
    /\ pc[t] \in {"lookup", "writing"}
    /\ \E u \in Tasks \ {t} : pc[u] = "writing"
    /\ halted' = "fatal"
    /\ UNCHANGED <<pvars, fvars, MethArea, MTable, poisoned, noBytes, suppress, pc, call,
                   lstack, hist, returned, insertedBy>>

(* The caller takes the result; the task is free for its next call.         *)
Return(t) ==
    /\ halted = "run"
    /\ pc[t] = "done"
    /\ pc' = [pc EXCEPT ![t] = "idle"]
    /\ call' = [call EXCEPT ![t] = NoCall]
    /\ hist' = [hist EXCEPT ![t] = NoHist]
    /\ UNCHANGED <<pvars, fvars, MethArea, MTable, poisoned, noBytes, suppress, halted,
                   lstack, returned, insertedBy>>

-----------------------------------------------------------------------------
(* getPrimitiveClass and simpleClassLoadByName, javaLangClass.go:50-113.    *)

(* Variant of PrimitiveWrapper that takes "char" for a byte.                *)
PrimitiveWrapperCharAsByte(str) ==
    CASE str = "boolean" -> "java/lang/Boolean"
      [] str = "byte" -> "java/lang/Byte"
      [] str = "char" -> "java/lang/Byte"
      [] str = "double" -> "java/lang/Double"
      [] str = "float" -> "java/lang/Float"
      [] str = "int" -> "java/lang/Integer"
      [] str = "long" -> "java/lang/Long"
      [] str = "short" -> "java/lang/Short"
      [] str = "void" -> "java/lang/Void"
      [] OTHER -> ""

(* switch str: the class name handed to simpleClassLoadByName, "" for the   *)
(* default case.                                                            *)
PrimitiveWrapper(str) ==
    CASE str = "boolean" -> "java/lang/Boolean"
      [] str = "byte" -> "java/lang/Byte"
      [] str = "char" -> "java/lang/Character"
      [] str = "double" -> "java/lang/Double"
      [] str = "float" -> "java/lang/Float"
      [] str = "int" -> "java/lang/Integer"
      [] str = "long" -> "java/lang/Long"
      [] str = "short" -> "java/lang/Short"
      [] str = "void" -> "java/lang/Void"
      [] OTHER -> ""

(* fmt.Sprintf("getPrimitiveClass() does not handle: %s", str)              *)
PrimitiveError(str) == "getPrimitiveClass() does not handle: " \o str

(* "instantiateClass()-getPrimitivelass(): Failed to load class " +         *)
(* errClassName                                                             *)
SimpleLoadError(className) ==
    "instantiateClass()-getPrimitivelass(): Failed to load class "
        \o (IF className = "" THEN "<empty string>" ELSE className)

(* The words getPrimitiveClass is called with, and the class names          *)
(* simpleClassLoadByName and FetchMethodAndCP are called with beside them.  *)
Words == {"boolean", "byte", "char", "double", "float", "int", "long",
          "short", "void", "unreal", "Int"}
NativesClasses == {"java/lang/Integer", "java/lang/Object"}

(* At most MaxWrappers wrapper classes are in use at a time.                *)
MaxWrappers == 1
WrappersInUse ==
    {c \in Wrappers : c \in DOMAIN MethArea \/ \E t \in Tasks : call[t].className = c}
MayUse(c) ==
    \/ c \notin Wrappers
    \/ LET inUse == WrappersInUse
       IN c \in inUse \/ Cardinality(inUse) < MaxWrappers

(* The error the called function returns for a simpleClassLoadByName error: *)
(* getPrimitiveClass replaces it by its own.                                *)
NativeError(c) ==
    IF c.fn = "getPrimitiveClass" THEN PrimitiveError(c.word)
    ELSE SimpleLoadError(c.className)

(* The call of task t returns (klass, err); h is its record so far.         *)
FinishNative(t, klass, err, h) ==
    /\ pc' = [pc EXCEPT ![t] = "done"]
    /\ hist' = [hist EXCEPT ![t] = [h EXCEPT !.klass = klass, !.err = err]]

(* The calls of simpleClassLoadByName(className) that have returned.        *)
ReturnedCalls(t, className) ==
    {[nil |-> hist[u].klass = NoKlass, invokedLoader |-> hist[u].invokedLoader] :
        u \in {v \in Tasks \ {t} : /\ pc[v] = "done"
                                   /\ call[v].fn = "simpleClassLoadByName"
                                   /\ call[v].className = className}}

(* Lines 93-99 of simpleClassLoadByName(className), entered by function fn. *)
SimpleStart(t, fn, str, className) ==
    LET alreadyLoaded == MethAreaFetch(className)
        c == [NoCall EXCEPT !.fn = fn, !.word = str, !.className = className]
        h == [NoHist EXCEPT !.fetched = {className},
                            !.afterFailure = FailedBefore(className),
                            !.startPresent = alreadyLoaded # NoKlass,
                            !.prior = ReturnedCalls(t, className)]
    IN /\ call' = [call EXCEPT ![t] = c]
       /\ IF alreadyLoaded # NoKlass
          THEN FinishNative(t, alreadyLoaded, "", h) /\ UNCHANGED lstack
          ELSE /\ pc' = [pc EXCEPT ![t] = "load"]
               /\ lstack' = [lstack EXCEPT ![t] = <<Frame(className, "enter")>>]
               /\ hist' = [hist EXCEPT ![t] =
                      [h EXCEPT !.invokedLoader = TRUE, !.loads = {className}]]

simpleClassLoadByName(t, className) ==
    /\ halted = "run"
    /\ pc[t] = "idle"
    /\ MayUse(className)
    /\ SimpleStart(t, "simpleClassLoadByName", "", className)
    /\ UNCHANGED <<pvars, fvars, MethArea, MTable, poisoned, noBytes, suppress, halted,
                   returned, insertedBy>>

getPrimitiveClass(t, str) ==
    /\ halted = "run"
    /\ pc[t] = "idle"
    /\ MayUse(PrimitiveWrapper(str))
    /\ IF PrimitiveWrapper(str) = ""
       THEN /\ call' = [call EXCEPT ![t] =
                   [NoCall EXCEPT !.fn = "getPrimitiveClass", !.word = str]]
            /\ FinishNative(t, NoKlass, PrimitiveError(str), NoHist)
            /\ UNCHANGED lstack
       ELSE SimpleStart(t, "getPrimitiveClass", str, PrimitiveWrapper(str))
    /\ UNCHANGED <<pvars, fvars, MethArea, MTable, poisoned, noBytes, suppress, halted,
                   returned, insertedBy>>

(* Lines 100-112: LoadClassFromNameOnly returned to simpleClassLoadByName.  *)
SimpleAfterLoad(t) ==
    /\ halted = "run"
    /\ pc[t] = "loaded"
    /\ call[t].fn \in {"simpleClassLoadByName", "getPrimitiveClass"}
    /\ IF call[t].loadErr
       THEN IF ExitEndsProcess
            THEN halted' = "exit" /\ UNCHANGED <<pc, hist>>
            ELSE FinishNative(t, NoKlass, NativeError(call[t]), hist[t])
                 /\ UNCHANGED halted
       ELSE FinishNative(t, MethAreaFetch(call[t].className), "", hist[t])
            /\ UNCHANGED halted
    /\ UNCHANGED <<pvars, fvars, MethArea, MTable, poisoned, noBytes, suppress, call,
                   lstack, returned, insertedBy>>

(* The natives and the resolver together: tasks call getPrimitiveClass,     *)
(* simpleClassLoadByName and FetchMethodAndCP on the wrapper classes.  The  *)
(* suppression of shutdown.Exit is read only after a failed load, so it     *)
(* varies only where a class file is missing.                               *)
InitNatives ==
    /\ ParserOff
    /\ FuncsOff
    /\ \/ ResolverStart(EmptyMap, {}, TRUE)
       \/ \E missing \in {{"java/lang/Object"}, {"java/lang/Integer"}},
              sup \in BOOLEAN :
               ResolverStart(EmptyMap, missing, sup)

NextNatives ==
    \E t \in Tasks :
        \/ \E str \in Words : getPrimitiveClass(t, str)
        \/ \E c \in NativesClasses : simpleClassLoadByName(t, c)
        \/ \E c \in NativesClasses :
               pc[t] = "idle" /\ MayUse(c) /\ Call(t, c, "toString")
        \/ LoadEnter(t)
        \/ LoadParse(t)
        \/ LoadSuper(t)
        \/ LoadLink(t)
        \/ LoadFail(t)
        \/ SimpleAfterLoad(t)
        \/ AfterLoad(t)
        \/ Lookup(t)
        \/ Wait(t)
        \/ Resolve(t)
        \/ Write(t)
        \/ RaceThrow(t)
        \/ Return(t)

SpecNatives == InitNatives /\ [][NextNatives]_vars

-----------------------------------------------------------------------------
(* The read-only functions on their own.                                    *)
InitFuncs ==
    /\ InitAssertions \/ InitFetchUTF8 \/ InitMethType
    /\ ParserOff
    /\ ResolverOff

CallGetAssertionsEnabledStatus ==
    /\ fnCall.fn = "getAssertionsEnabledStatus"
    /\ fnRet.fn = ""
    /\ LET r == getAssertionsEnabledStatus(Statics) IN
           /\ fnRet' = r.ret
           /\ Statics' = r.statics
    /\ UNCHANGED <<pvars, rvars, fnCall>>

CallFetchUTF8stringFromCPEntryNumber ==
    /\ fnCall.fn = "FetchUTF8stringFromCPEntryNumber"
    /\ fnRet.fn = ""
    /\ LET r == FetchUTF8stringFromCPEntryNumber(fnCall.cp, fnCall.entry) IN
           /\ fnRet' = r.ret
           /\ fnCall' = [fnCall EXCEPT !.cp = r.cp]
    /\ UNCHANGED <<pvars, rvars, Statics>>

CallParseIncomingParamsFromMethTypeString ==
    /\ fnCall.fn = "ParseIncomingParamsFromMethTypeString"
    /\ fnRet.fn = ""
    /\ fnRet' = Returns("ParseIncomingParamsFromMethTypeString",
                        ParseIncomingParamsFromMethTypeString(fnCall.s))
    /\ UNCHANGED <<pvars, rvars, Statics, fnCall>>

NextFuncs ==
    \/ CallGetAssertionsEnabledStatus
    \/ CallFetchUTF8stringFromCPEntryNumber
    \/ CallParseIncomingParamsFromMethTypeString

SpecFuncs == InitFuncs /\ [][NextFuncs]_vars

Next ==
    \E t \in Tasks :
        \/ \E c \in Classes, m \in MethNames : Call(t, c, m)
        \/ LoadEnter(t)
        \/ LoadParse(t)
        \/ LoadSuper(t)
        \/ LoadLink(t)
        \/ LoadFail(t)
        \/ AfterLoad(t)
        \/ Lookup(t)
        \/ Wait(t)
        \/ Resolve(t)
        \/ Write(t)
        \/ RaceThrow(t)
        \/ Return(t)

Spec == Init /\ [][Next]_vars

NextParse ==
    \/ StepMagic
    \/ StepVersion
    \/ StepCpCount
    \/ StepConstantPool
    \/ StepAccessFlags
    \/ StepClassName
    \/ StepSuperClassName

SpecParse == InitParse /\ [][NextParse]_vars

(* The resolver under fair scheduling, on the class Child and its           *)
(* superclass.  A task that has a step to take is not left waiting for ever *)
(* (weak fairness of the steps of a load and of a call).  A task blocked in *)
(* WaitForClassStatus is woken whenever the awaited condition comes to      *)
(* hold, and the condition may cease to hold when a later load claims the   *)
(* name again: strong fairness of Wait.  The caller decides whether it      *)
(* calls again, so Call carries no fairness, and neither does the fatal     *)
(* throw.                                                                   *)
WaitClasses == {"Child", "java/lang/Object"}

InitWait ==
    /\ ParserOff
    /\ FuncsOff
    /\ \E missing \in SUBSET WaitClasses, sup \in BOOLEAN :
           ResolverStart(EmptyMap, missing, sup)

LoaderStep(t) ==
    \/ LoadEnter(t)
    \/ LoadParse(t)
    \/ LoadSuper(t)
    \/ LoadLink(t)
    \/ LoadFail(t)

CallStep(t) ==
    \/ AfterLoad(t)
    \/ Lookup(t)
    \/ Wait(t)
    \/ Resolve(t)
    \/ Write(t)
    \/ Return(t)

NextWait ==
    \E t \in Tasks :
        \/ \E c \in WaitClasses, m \in MethNames : Call(t, c, m)
        \/ LoaderStep(t)
        \/ CallStep(t)
        \/ RaceThrow(t)

FairScheduling ==
    \A t \in Tasks :
        WF_vars(LoaderStep(t)) /\ WF_vars(CallStep(t)) /\ SF_vars(Wait(t))

SpecWait == InitWait /\ [][NextWait]_vars /\ FairScheduling

-----------------------------------------------------------------------------
(*                          PROPERTIES: THE PARSER                          *)

StepOrder == <<"magic", "version", "cpcount", "cp", "flags", "this", "super">>

IsPrefix(a, b) == Len(a) <= Len(b) /\ a = SubSeq(b, 1, Len(a))

ParseReturnedNil == ppc = "returned" /\ perr = NoErr

(* The 2-byte index the last name step read, when it could be read.         *)
LastNameStepIndexRead ==
    /\ psteps # <<>>
    /\ psteps[Len(psteps)] \in {"this", "super"}
    /\ ~intFrom2BytesFails(rawBytes, ppos - 1)
LastNameStepIndex == intFrom2Bytes(rawBytes, ppos - 1)

(* Index i names no entry of a pool of cpCount slots, or an entry whose tag *)
(* is not the wanted one.                                                   *)
BadCpTarget(i, tag) ==
    \/ i < 1
    \/ i >= pClass.cpCount
    \/ At(pClass.cpIndex, i).entryType # tag

(* The file's name index does not lead, through a ClassRef, to a UTF8 entry. *)
BadNameIndex(i) ==
    \/ BadCpTarget(i, ClassRef)
    \/ BadCpTarget(At(pClass.classRefs, At(pClass.cpIndex, i).slot).index, UTF8)

(* C1: parse runs magic, version, constant-pool count, constant-pool        *)
(* entries, access flags, this-class, super-class in that order, stops at   *)
(* the first failing step with that step's error, and returns a nil error   *)
(* only after all seven steps ran and succeeded, whatever the buffer and    *)
(* whatever the constant-pool step returned.                                *)
C1_NilErrorMeansAllSevenSteps ==
    /\ IsPrefix(psteps, StepOrder)
    /\ (ppc = "returned" /\ perr # NoErr) => Len(psteps) >= 1
    /\ ParseReturnedNil => psteps = StepOrder

(* C10: the this-class and super-class steps never index the constant pool *)
(* out of range: an index from the buffer, or a name index inside the       *)
(* ClassRef it targets, that lies outside [1, cpCount) or targets the wrong *)
(* tag makes the step return a ClassFormatError.                            *)
C10_BadIndexIsClassFormatError ==
    /\ ppc # "panic"
    /\ (LastNameStepIndexRead /\ BadNameIndex(LastNameStepIndex))
           => (ppc = "returned" /\ perr.kind = "ClassFormatError")

(* The name a class-file name index leads to: cpIndex[i] -> classRefs[slot]  *)
(* .index -> cpIndex[..].slot -> utf8Refs[..].                               *)
NameAt(i) ==
    LET classNameIndex == At(pClass.classRefs, At(pClass.cpIndex, i).slot).index
    IN At(pClass.utf8Refs, At(pClass.cpIndex, classNameIndex).slot).content

SuperIndexRead == psteps = StepOrder /\ LastNameStepIndexRead

(* C11: in the super-class step a super-class index of 0 is accepted, the   *)
(* step succeeding with an empty super-class name, when the class being     *)
(* parsed is java/lang/Object; for every other class a 0 index or an empty  *)
(* super-class name is a ClassFormatError.                                  *)
C11_SuperIndexZeroOnlyForObject ==
    SuperIndexRead =>
        LET index == LastNameStepIndex
            isObject == pClass.className = "java/lang/Object"
        IN /\ (isObject /\ index = 0)
                  => (ParseReturnedNil /\ pClass.superClass = "")
           /\ (~isObject /\ (index = 0
                             \/ (~BadNameIndex(index) /\ NameAt(index) = "")))
                  => (ppc = "returned" /\ perr.kind = "ClassFormatError")

(* C12: whenever parse returns without error, the parsed class's className  *)
(* is non-empty, and its superClass is non-empty unless className is        *)
(* java/lang/Object.  Stated for the parses that ran all seven steps: the   *)
(* names a parse stored, not the ones it never read.                        *)
C12_NamesNonEmpty ==
    (ParseReturnedNil /\ psteps = StepOrder) =>
        /\ pClass.className # ""
        /\ (pClass.superClass # "" \/ pClass.className = "java/lang/Object")

(* C13: whenever parse returns without error, the recorded access flags do  *)
(* not have both bits of a mutually exclusive pair set: final (0x0010) and  *)
(* abstract (0x0400) are never both true, nor is an interface final or an   *)
(* enum.                                                                    *)
C13_ExclusiveFlagsNeverBoth ==
    ParseReturnedNil =>
        /\ ~(pClass.classIsFinal /\ pClass.classIsAbstract)
        /\ ~(pClass.classIsInterface /\ pClass.classIsFinal)
        /\ ~(pClass.classIsInterface /\ pClass.classIsEnum)

(* The this-class index of the file: the word after the access flags, which *)
(* follow the constant pool region.                                         *)
FileThisIndexOffset == LastCpByte(pClass.cpCount) + 3
FileThisIndex == intFrom2Bytes(rawBytes, FileThisIndexOffset)

(* The constant-pool step returned the offset of the last byte of the pool  *)
(* region, as it does for every class file.                                 *)
CpStepAtPoolEnd == cpOut.pos = LastCpByte(pClass.cpCount)

(* C14: for every class file that parses successfully, the stored className *)
(* equals the content of the UTF8 entry referenced by the ClassRef entry at *)
(* the file's this-class constant-pool index.                               *)
C14_ClassNameIsReferencedUtf8 ==
    (ParseReturnedNil /\ CpStepAtPoolEnd) =>
        /\ ~intFrom2BytesFails(rawBytes, FileThisIndexOffset)
        /\ ~BadNameIndex(FileThisIndex)
        /\ pClass.className = NameAt(FileThisIndex)

(* A successful parse of a file that names two different classes, the       *)
(* this-class index leading to the second of them.                          *)
C14_Witness ==
    /\ ParseReturnedNil
    /\ CpStepAtPoolEnd
    /\ psteps = StepOrder
    /\ FileThisIndex = 2
    /\ pClass.className = "Foo"
    /\ pClass.superClass = "java/lang/Object"

StartsWithCafeBabe ==
    Len(rawBytes) >= 4 /\ SubSeq(rawBytes, 1, 4) = <<202, 254, 186, 190>>

(* C15: parse fails with ClassFormatError("invalid magic number") for every *)
(* buffer shorter than 4 bytes, the empty buffer included, and for every    *)
(* buffer whose first four bytes are not CA FE BA BE; for every buffer that *)
(* starts with CA FE BA BE the magic step succeeds and parsing continues to *)
(* the version step.                                                        *)
C15_MagicNumber ==
    psteps # <<>> =>
        IF StartsWithCafeBabe
        THEN IF Len(psteps) = 1
             THEN ppc = "version" /\ perr = NoErr
             ELSE psteps[2] = "version"
        ELSE /\ psteps = <<"magic">>
             /\ ppc = "returned"
             /\ perr = cfe("invalid magic number")

(* A buffer of four bytes or more that differs from CA FE BA BE in its last *)
(* byte only was rejected.                                                  *)
C15_Witness ==
    /\ ppc = "returned"
    /\ perr = cfe("invalid magic number")
    /\ Len(rawBytes) >= 4
    /\ SubSeq(rawBytes, 1, 3) = <<202, 254, 186>>

(* The major version of the file, bytes 6 and 7.                            *)
VersionStepRead == Len(psteps) >= 2 /\ ~intFrom2BytesFails(rawBytes, 6)
FileMajor == intFrom2Bytes(rawBytes, 6)

(* C16: a class file whose major version is MaxJavaVersionRaw + 1 or larger *)
(* is rejected with an error of kind UnsupportedClassVersion; one whose     *)
(* major version equals MaxJavaVersionRaw passes the version step, records  *)
(* the version and proceeds to the constant-pool count.                     *)
C16_VersionGate ==
    VersionStepRead =>
        /\ FileMajor > MaxJavaVersionRaw
               => /\ psteps = <<"magic", "version">>
                  /\ ppc = "returned"
                  /\ perr.kind = "UnsupportedClassVersion"
        /\ FileMajor = MaxJavaVersionRaw
               => /\ pClass.javaVersion = FileMajor
                  /\ IF Len(psteps) = 2
                     THEN ppc = "cpcount" /\ perr = NoErr
                     ELSE psteps[3] = "cpcount"

(* The constant-pool count of the file, bytes 8 and 9.                      *)
FileCpCount == intFrom2Bytes(rawBytes, 8)

(* C17: the constant-pool count step fails with the CP-size error for every *)
(* count value <= 2, and when the 2-byte count cannot be read, leaving      *)
(* cpCount unset; it succeeds and records cpCount for every count > 2.      *)
C17_CpCountGate ==
    Len(psteps) >= 3 =>
        IF intFrom2BytesFails(rawBytes, 8) \/ FileCpCount <= 2
        THEN /\ psteps = <<"magic", "version", "cpcount">>
             /\ ppc = "returned"
             /\ perr = CpSizeError(FileCpCount)
             /\ pClass.cpCount = EmptyParsedClass.cpCount
        ELSE /\ pClass.cpCount = FileCpCount
             /\ Len(psteps) = 3 => (ppc = "cp" /\ perr = NoErr)

(* A file that declares a constant-pool count of exactly 2 was rejected.    *)
C17_Witness ==
    /\ psteps = <<"magic", "version", "cpcount">>
    /\ ppc = "returned"
    /\ ~intFrom2BytesFails(rawBytes, 8)
    /\ FileCpCount = 2
    /\ perr.kind = "ClassFormatError"

-----------------------------------------------------------------------------
(*                         PROPERTIES: THE RESOLVER                         *)

Done(t) == pc[t] = "done"
Succeeded(t) == Done(t) /\ hist[t].err = ""
CallSig(t) == call[t].methName \o call[t].methType

(* The nearest class, from c up its superclass chain, that declares sig.    *)
RECURSIVE FirstDeclarer(_, _)
FirstDeclarer(c, sig) ==
    IF c = "" THEN ""
    ELSE IF sig \in ClassFileMethods(c) THEN c
    ELSE FirstDeclarer(Superclass(c), sig)

(* C2: for a loaded and linked class C that does not declare m+t, m not     *)
(* main, with an ancestor P that declares it, FetchMethodAndCP returns P's  *)
(* entry and caches it under C.m+t.                                         *)
C2_InheritedMethodFound ==
    \A t \in Tasks :
        (/\ Done(t)
         /\ hist[t].startLoaded
         /\ call[t].methName # "main"
         /\ CallSig(t) \notin ClassFileMethods(call[t].className)
         /\ FirstDeclarer(call[t].className, CallSig(t)) # "")
        => LET P == FirstDeclarer(call[t].className, CallSig(t))
               e == MTentry(JmEntry(P, CallSig(t)), "J")
           IN /\ hist[t].err = ""
              /\ hist[t].entry = e
              /\ MTableGet(CallKey(t)) = e

(* C3: every bytecode entry in the Method Table, and every bytecode entry   *)
(* FetchMethodAndCP returns, belongs to a class whose status is at least    *)
(* linked, under every interleaving of loads and calls.                     *)
C3_OwnersAtLeastLinked ==
    /\ \A k \in DOMAIN MTable :
           MTable[k].MType = "J" => AtLeastLinked(MTable[k].Meth.cp)
    /\ \A t \in Tasks :
           (Succeeded(t) /\ hist[t].entry.MType = "J")
               => AtLeastLinked(hist[t].entry.Meth.cp)
    /\ \A r \in returned : r[2].MType = "J" => AtLeastLinked(r[2].Meth.cp)

C3_Witness ==
    \E t, u \in Tasks :
        /\ Succeeded(t) /\ hist[t].entry.MType = "J" /\ hist[t].wrote
        /\ pc[u] = "load"
        /\ \E c \in DOMAIN MethArea : ~AtLeastLinked(c)

(* C4: a call whose FQ key is in the Method Table returns that entry, and   *)
(* the loader runs only after a Method Table miss: a hit never invokes it.  *)
C4_HitNeverInvokesLoader ==
    \A t \in Tasks : hist[t].hit => ~hist[t].invokedLoader

(* C5: successful calls for the same (C, m, t) return equal MTentry values, *)
(* and a call made after the inserting call returned is served from the     *)
(* Method Table: no loader invocation and no second write.                  *)
C5_SecondCallServedFromTable ==
    /\ \A p, q \in returned : p[1] = q[1] => p[2] = q[2]
    /\ \A t \in Tasks :
           hist[t].afterInsert =>
               /\ ~hist[t].invokedLoader
               /\ ~hist[t].wrote
               /\ pc[t] \notin {"load", "loaded", "wait", "resolve", "writing"}
               /\ Done(t) => (/\ hist[t].err = ""
                              /\ hist[t].hit
                              /\ hist[t].entry = MTableGet(CallKey(t)))

C5_Witness ==
    \E t \in Tasks :
        Succeeded(t) /\ hist[t].afterInsert /\ hist[t].entry.MType = "J"

(* C6: a native entry of the Method Table is never replaced by a bytecode   *)
(* entry, also when the class declares a method of the same name and        *)
(* descriptor, and a call for its signature returns the native entry.       *)
C6_NativeNeverShadowed ==
    /\ \A k \in DOMAIN NativeMTable :
           k \in DOMAIN MTable /\ MTable[k] = NativeMTable[k]
    /\ \A t \in Tasks :
           (Done(t) /\ CallKey(t) \in DOMAIN NativeMTable)
               => (hist[t].err = "" /\ hist[t].entry = NativeMTable[CallKey(t)])

C6_Witness ==
    \E t \in Tasks :
        /\ Succeeded(t)
        /\ hist[t].entry.MType = "G"
        /\ AtLeastLinked(call[t].className)
        /\ CallSig(t) \in MethodTable(MethAreaFetch(call[t].className))

(* C7: writers of the Method Table are serialized per key: no two tasks     *)
(* write the entry of the same FQ key at the same time; concurrent calls    *)
(* for the same signature return equal entries.                             *)
C7_WritersSerializedPerKey ==
    /\ \A t, u \in Tasks :
           (t # u /\ pc[t] = "writing" /\ pc[u] = "writing")
               => CallKey(t) # CallKey(u)
    /\ \A p, q \in returned : p[1] = q[1] => p[2] = q[2]

(* C8: a call for "main" on a loaded class that does not declare it emits   *)
(* the diagnostic exactly once, returns a non-nil error with an empty       *)
(* MTentry, touches no class but the one named, invokes no load, and adds   *)
(* nothing to the Method Table.                                             *)
C8_MissingMain ==
    \A t \in Tasks :
        (/\ Done(t)
         /\ call[t].methName = "main"
         /\ hist[t].startLoaded
         /\ CallSig(t) \notin ClassFileMethods(call[t].className))
        => /\ hist[t].diag = 1
           /\ hist[t].err # ""
           /\ hist[t].entry = NoEntry
           /\ hist[t].fetched = {call[t].className}
           /\ hist[t].loads = {}
           /\ ~hist[t].wrote
           /\ CallKey(t) \notin DOMAIN MTable

C8_Witness ==
    \E t \in Tasks :
        /\ Done(t)
        /\ call[t].methName = "main"
        /\ hist[t].startLoaded
        /\ CallSig(t) \notin ClassFileMethods(call[t].className)
        /\ hist[t].diag = 1
        /\ Superclass(call[t].className) # ""

(* C9: with shutdown suppressed, a call whose LoadClassFromNameOnly failed  *)
(* returns a non-nil error and an empty MTentry, for every method name and  *)
(* whatever the Method Table holds.                                         *)
C9_LoadFailureReturnsError ==
    \A t \in Tasks :
        (Done(t) /\ suppress /\ call[t].loadErr)
            => (hist[t].err # "" /\ hist[t].entry = NoEntry)

-----------------------------------------------------------------------------
(*                         PROPERTIES: THE NATIVES                          *)

PrimCalled(t) == Done(t) /\ call[t].fn = "getPrimitiveClass"
SimpleCalled(t) == Done(t) /\ call[t].fn = "simpleClassLoadByName"

(* The wrapper class of each primitive word.                                *)
WrapperOf ==
    "boolean" :> "java/lang/Boolean" @@ "byte" :> "java/lang/Byte"
        @@ "char" :> "java/lang/Character" @@ "double" :> "java/lang/Double"
        @@ "float" :> "java/lang/Float" @@ "int" :> "java/lang/Integer"
        @@ "long" :> "java/lang/Long" @@ "short" :> "java/lang/Short"
        @@ "void" :> "java/lang/Void"

(* C18: getPrimitiveClass maps each of the nine words boolean, byte, char,  *)
(* double, float, int, long, short, void to the Method Area entry of        *)
(* java/lang/Boolean, Byte, Character, Double, Float, Integer, Long, Short, *)
(* Void (an error is returned in its place only when loading that class     *)
(* failed); for any other word it returns an error, not a class, whose      *)
(* message ends in that word, and it neither invokes the loader nor has a   *)
(* load in progress.                                                        *)
C18_PrimitiveClass ==
    \A t \in Tasks :
        PrimCalled(t) =>
            LET w == call[t].word IN
            IF w \in DOMAIN WrapperOf
            THEN /\ hist[t].fetched = {WrapperOf[w]}
                 /\ hist[t].err = ""
                        => /\ hist[t].klass # NoKlass
                           /\ hist[t].klass.Name = WrapperOf[w]
                 /\ hist[t].err # ""
                        => /\ hist[t].klass = NoKlass
                           /\ call[t].loadErr
                           /\ hist[t].loads = {WrapperOf[w]}
            ELSE /\ hist[t].klass = NoKlass
                 /\ hist[t].err = "getPrimitiveClass() does not handle: " \o w
                 /\ ~hist[t].invokedLoader
                 /\ hist[t].loads = {}
                 /\ hist[t].fetched = {}
                 /\ lstack[t] = <<>>

(* getPrimitiveClass("char") loaded java/lang/Character on demand and       *)
(* returned its linked entry.                                               *)
C18_Witness ==
    \E t \in Tasks :
        /\ PrimCalled(t)
        /\ call[t].word = "char"
        /\ hist[t].err = ""
        /\ hist[t].invokedLoader
        /\ hist[t].klass = Klass("L", "bootstrap", "java/lang/Character")
        /\ MethAreaFetch("java/lang/Character") = hist[t].klass

(* C19: loading by name is idempotent as seen through                       *)
(* simpleClassLoadByName: two successive calls for the same class name      *)
(* return the same Method Area entry, the loader is invoked at most once    *)
(* across them, and a call for a name already present in the Method Area    *)
(* invokes no load, leaving the Method Area as it is.                       *)
C19_LoadByNameIdempotent ==
    \A t \in Tasks :
        SimpleCalled(t) =>
            /\ \A p \in hist[t].prior :
                   /\ p.nil = (hist[t].klass = NoKlass)
                   /\ ~(p.invokedLoader /\ hist[t].invokedLoader)
            /\ hist[t].startPresent
                   => (~hist[t].invokedLoader /\ hist[t].loads = {})

(* C20: a failed load is permanent: once loading class N has failed, every  *)
(* later simpleClassLoadByName(N), getPrimitiveClass call needing N and     *)
(* FetchMethodAndCP on N returns an error, and none returns N's poisoned or *)
(* placeholder entry as a successfully loaded class.                        *)
C20_FailedLoadIsPermanent ==
    \A t \in Tasks :
        (Done(t) /\ hist[t].afterFailure) =>
            /\ hist[t].err # ""
            /\ hist[t].klass = NoKlass
            /\ hist[t].entry = NoEntry

-----------------------------------------------------------------------------
(*                PROPERTIES: THE FRAME OF THE METHOD TABLE                 *)

(* Task t returns from FetchMethodAndCP in this step.                       *)
ReturnsNow(t) ==
    /\ call[t].fn = "FetchMethodAndCP"
    /\ pc[t] # "done"
    /\ pc'[t] = "done"

(* This step adds to the Method Table the 'J' entry of the method task t    *)
(* asked for, which the class declares, under the FQ key of the call, and   *)
(* leaves every other key as it was.                                        *)
InsertsRequested(t) ==
    LET c == call[t].className
        sig == call[t].methName \o call[t].methType
        key == c \o "." \o sig
    IN /\ ReturnsNow(t)
       /\ hist'[t].err = ""
       /\ sig \in ClassFileMethods(c)
       /\ DOMAIN MTable' = DOMAIN MTable \cup {key}
       /\ MTable'[key] = MTentry(JmEntry(c, sig), "J")
       /\ \A other \in DOMAIN MTable \ {key} : MTable'[other] = MTable[other]

(* C25: a step in which a FetchMethodAndCP call returns an error leaves the *)
(* Method Table as it was, and such a call has made no assignment to it;    *)
(* every step that changes the Method Table is the return of a call whose   *)
(* local lookup succeeded, and adds the one 'J' entry under the requested   *)
(* FQ key, all other keys unchanged.                                        *)
C25_MethodTableFrame ==
    /\ [](\A t \in Tasks :
              (Done(t) /\ call[t].fn = "FetchMethodAndCP" /\ hist[t].err # "")
                  => ~hist[t].wrote)
    /\ [][/\ \A t \in Tasks :
                (ReturnsNow(t) /\ hist'[t].err # "") => MTable' = MTable
          /\ MTable' # MTable => \E t \in Tasks : InsertsRequested(t)]_vars

(* One call has inserted an entry beside an earlier one, and the other      *)
(* call has returned an error.                                              *)
C25_Witness ==
    \E t, u \in Tasks :
        /\ Done(t)
        /\ hist[t].wrote
        /\ Cardinality({key \in DOMAIN MTable : MTable[key].MType = "J"}) = 2
        /\ Done(u)
        /\ call[u].fn = "FetchMethodAndCP"
        /\ hist[u].err # ""

-----------------------------------------------------------------------------
(*                   PROPERTIES: WAITING ON A LOAD                          *)

(* The call of task t began while the class was in the Method Area below    *)
(* linked: another task was loading it, or its load had failed.             *)
CalledWhileLoading(t) ==
    /\ call[t].fn = "FetchMethodAndCP"
    /\ hist[t].startPresent
    /\ ~hist[t].startLoaded

Returned(t) == pc[t] \in {"done", "idle"}

-----------------------------------------------------------------------------
(*                  PROPERTIES: THE READ-ONLY FUNCTIONS                     *)

AssertionsCalled == fnRet.fn = "getAssertionsEnabledStatus"

(* The value stored for the assertion flag when the call was made.          *)
StoredFlag == StaticsFetch(fnCall.statics0, "main.$assertionsDisabled").Value

FetchUTF8Called == fnRet.fn = "FetchUTF8stringFromCPEntryNumber"

(* C22: FetchUTF8stringFromCPEntryNumber(cp, entry) returns "" when entry   *)
(* is 0, when entry >= len(cp.CpIndex) and when the entry's tag is not      *)
(* UTF8; otherwise it returns cp.Utf8Refs[cp.CpIndex[entry].Slot]; the pool *)
(* after the call is the pool before it.                                    *)
C22_FetchUTF8string ==
    FetchUTF8Called =>
        LET cp == fnCall.cp0
            entry == fnCall.entry
        IN /\ fnCall.cp = cp
           /\ ~fnRet.panic
           /\ fnRet.value =
                  IF \/ entry = 0
                     \/ entry >= Len(cp.CpIndex)
                     \/ At(cp.CpIndex, entry).Type # UTF8
                  THEN ""
                  ELSE At(cp.Utf8Refs, At(cp.CpIndex, entry).Slot)

(* A call that returned the second UTF8 string of its pool.                 *)
C22_Witness ==
    /\ FetchUTF8Called
    /\ fnCall.entry = 2
    /\ Len(fnCall.cp0.CpIndex) = 3
    /\ At(fnCall.cp0.CpIndex, 2) = [Type |-> UTF8, Slot |-> 1]
    /\ ~fnRet.panic
    /\ fnRet.value = "Foo"

ParseParamsCalled == fnRet.fn = "ParseIncomingParamsFromMethTypeString"

(* The calls of TestParseIncomingParamsFromMethType and the results it      *)
(* expects: "(SBI)", "(S[BI)I" and "".                                      *)
TestParseIncomingParamsFromMethType ==
    {[s |-> <<"(", "S", "B", "I", ")">>, res |-> <<"I", "I", "I">>],
     [s |-> <<"(", "S", "[", "B", "I", ")", "I">>, res |-> <<"I", "[B", "I">>],
     [s |-> <<>>, res |-> <<>>]}

(* What the list holds for one parameter: "I" for byte, short and int, the  *)
(* type as written for an array.                                            *)
ParamElement(param) ==
    IF Head(param) = "[" THEN Substring(param, 0, Len(param) - 1) ELSE "I"

====
